---- MODULE Spec2Model ----
(***************************************************************************)
(* A model of the daily-stock-tracker scripts:                             *)
(*   tickers_config.py  parse_tickers, load_tickers_from_file,             *)
(*                      get_default_tickers                                *)
(*   streamlit_app.py   _price_from_history, get_last_price                *)
(*   daily_script.py    build_message_body, send_push_notification         *)
(*                                                                         *)
(* Python strings are sequences of one-character strings.  Floats are      *)
(* records [k, v]: k = "fin" with v the value in hundredths, or "nan",     *)
(* "inf", and Python's None is [k |-> "none", v |-> 0].                    *)
(***************************************************************************)
EXTENDS Integers, Sequences, FiniteSets, TLC

VARIABLES
    prog,        \* the entry point this run executes
    pc,          \* the position inside it
    raw,         \* parse_tickers: the raw text
    out,         \* parse_tickers: the list returned
    again,       \* parse_tickers of ",".join(out)
    environ,     \* os.environ: NTFY_TOPIC, TICKERS
    file,        \* the file TICKERS_FILE names, as the file system holds it
    market,      \* which quotes the data source holds for the built-in symbols
    ticker_str,  \* get_last_price: its argument
    tickers,     \* build_message_body: its argument
    idx,         \* build_message_body: the position of the for loop (1-based)
    t,           \* the normalized ticker being resolved
    fi,          \* the fast_info snapshot read for t
    hist,        \* the history frame read for t
    price,       \* the local price
    currency,    \* get_last_price: the local currency
    lines,       \* build_message_body: the report lines so far
    message_body, \* send_push_notification: the report text
    calls,       \* the external calls issued so far, in order
    stdout,      \* what send_push_notification printed
    ret,         \* the value the entry point returned
    exc          \* the exception that left the entry point ("" for none)

\* -------------------------------------------------------------------------
\* Bounds of the model.
MaxRawLen == 5
MaxTickers == 2
MaxHist == 2

\* -------------------------------------------------------------------------
\* str helpers, as CPython computes them on the model's alphabet.

NL == "\n"

\* The characters of the raw texts the model draws.
Alphabet == {"a", "A", "b", ",", "#", NL, " "}

\* str.isspace for one character.
IsSpace(c) == c \in {" ", "\t", NL, "\r"}

\* str.upper for one character.
UpperChar(c) ==
    CASE c = "a" -> "A"
      [] c = "b" -> "B"
      [] c = "c" -> "C"
      [] OTHER -> c

\* str.upper()
Upper(s) == [i \in 1..Len(s) |-> UpperChar(s[i])]

RECURSIVE LStrip(_)
LStrip(s) ==
    IF s /= <<>> /\ IsSpace(Head(s)) THEN LStrip(Tail(s)) ELSE s

RECURSIVE RStrip(_)
RStrip(s) ==
    IF s /= <<>> /\ IsSpace(s[Len(s)])
    THEN RStrip(SubSeq(s, 1, Len(s) - 1))
    ELSE s

\* str.strip()
Strip(s) == RStrip(LStrip(s))

\* The index of the first c in s, 0 when there is none (str.find, 1-based).
RECURSIVE FindFrom(_, _, _)
FindFrom(s, c, i) ==
    IF i > Len(s) THEN 0
    ELSE IF s[i] = c THEN i
    ELSE FindFrom(s, c, i + 1)

Find(s, c) == FindFrom(s, c, 1)

\* str.split(c): the pieces between the separators, always at least one.
RECURSIVE Split(_, _)
Split(s, c) ==
    LET i == Find(s, c)
    IN  IF i = 0 THEN <<s>>
        ELSE <<SubSeq(s, 1, i - 1)>> \o Split(SubSeq(s, i + 1, Len(s)), c)

\* str.split(c, 1)[0]
SplitFirst(s, c) ==
    LET i == Find(s, c)
    IN  IF i = 0 THEN s ELSE SubSeq(s, 1, i - 1)

\* str.splitlines(): no piece for the text after a final line break.
SplitLines(s) ==
    LET segs == Split(s, NL)
    IN  IF segs[Len(segs)] = <<>> THEN SubSeq(segs, 1, Len(segs) - 1) ELSE segs

\* str.replace(a, b) for one-character a and b.
Replace(s, a, b) == [i \in 1..Len(s) |-> IF s[i] = a THEN b ELSE s[i]]

\* sep.join(parts)
RECURSIVE Join(_, _)
Join(sep, parts) ==
    IF parts = <<>> THEN <<>>
    ELSE IF Len(parts) = 1 THEN parts[1]
    ELSE parts[1] \o sep \o Join(sep, Tail(parts))

\* The concatenation of a list of lists (list.extend in a loop).
RECURSIVE Flatten(_)
Flatten(ss) == IF ss = <<>> THEN <<>> ELSE Head(ss) \o Flatten(Tail(ss))

\* -------------------------------------------------------------------------
\* tickers_config.py

\* One pass of the first loop of parse_tickers: the cleaned line, or <<>>
\* for a line that is skipped.
CleanLine(line0) ==
    LET line == Strip(line0)
    IN  IF line = <<>> \/ line[1] = "#" THEN <<>>
        ELSE IF Find(line, "#") /= 0 THEN Strip(SplitFirst(line, "#"))
        ELSE line

\* cleaned_lines
CleanedLines(text) ==
    LET ls == SplitLines(text)
    IN  SelectSeq([i \in 1..Len(ls) |-> CleanLine(ls[i])],
                  LAMBDA l : l /= <<>>)

\* [p.strip().upper() for p in line.replace("\n", ",").split(",")]
LineParts(line) ==
    LET ps == Split(Replace(line, NL, ","), ",")
    IN  [i \in 1..Len(ps) |-> Upper(Strip(ps[i]))]

\* parts, after the empty ones are dropped
Parts(text) ==
    LET cl == CleanedLines(text)
    IN  SelectSeq(Flatten([i \in 1..Len(cl) |-> LineParts(cl[i])]),
                  LAMBDA p : p /= <<>>)

\* The de-duplication loop, which keeps the last of equal tokens.
RECURSIVE DedupeKeepLast(_)
DedupeKeepLast(parts) ==
    IF parts = <<>> THEN <<>>
    ELSE IF \E j \in 2..Len(parts) : parts[j] = Head(parts)
         THEN DedupeKeepLast(Tail(parts))
         ELSE <<Head(parts)>> \o DedupeKeepLast(Tail(parts))

\* The de-duplication loop: seen gates the append to out.
RECURSIVE DedupeFrom(_, _, _)
DedupeFrom(parts, seen, acc) ==
    IF parts = <<>> THEN acc
    ELSE IF Head(parts) \in seen
         THEN DedupeFrom(Tail(parts), seen, acc)
         ELSE DedupeFrom(Tail(parts), seen \cup {Head(parts)},
                         Append(acc, Head(parts)))

\* A de-duplication loop that puts each new token first.
RECURSIVE DedupePrependFrom(_, _, _)
DedupePrependFrom(parts, seen, acc) ==
    IF parts = <<>> THEN acc
    ELSE IF Head(parts) \in seen
         THEN DedupePrependFrom(Tail(parts), seen, acc)
         ELSE DedupePrependFrom(Tail(parts), seen \cup {Head(parts)},
                                <<Head(parts)>> \o acc)

DedupePrepend(parts) == DedupePrependFrom(parts, {}, <<>>)

Dedupe(parts) == DedupeFrom(parts, {}, <<>>)

parse_tickers(text) == Dedupe(Parts(text))

\* -------------------------------------------------------------------------
\* The raw texts of a run.
RECURSIVE StringsUpTo(_)
StringsUpTo(n) ==
    IF n = 0 THEN {<<>>}
    ELSE LET shorter == StringsUpTo(n - 1)
         IN  shorter \cup
             {Append(s, c) : s \in {x \in shorter : Len(x) = n - 1},
                             c \in Alphabet}

RawTexts == StringsUpTo(MaxRawLen)

\* -------------------------------------------------------------------------
\* Values of the data source.

\* Python's None where a float is expected, and the floats of the model.
PriceNone == [k |-> "none", v |-> 0]
NaN == [k |-> "nan", v |-> 0]
Inf == [k |-> "inf", v |-> 0]
Fin(c) == [k |-> "fin", v |-> c]

\* The finite prices the source quotes, in hundredths: 123.40 and 0.05.
Prices == {12340, 5}

\* None where a str is expected, and a currency code.
CurNone == [k |-> "none", s |-> ""]
Cur(code) == [k |-> "str", s |-> code]

\* One field of a fast_info mapping: missing from it, raising when it is
\* read (the lazy fetch fails), or holding a value.
CurrencyFields ==
    {[k |-> "absent", s |-> ""], [k |-> "raises", s |-> ""], [k |-> "str", s |-> "USD"]}

LastPriceFields ==
    {[k |-> x, v |-> 0] : x \in {"absent", "none", "raises", "text", "nan", "inf"}}
        \cup {Fin(c) : c \in Prices}

NoField == [k |-> "absent", s |-> ""]
NoPriceField == [k |-> "absent", v |-> 0]

\* What reading stock.fast_info can give: the read raises, the attribute is
\* None or missing, a mapping that is empty (falsy), a truthy object that is
\* no mapping (no get, no "in"), or a mapping with its two fields.
Snapshot(shape) == [shape |-> shape, currency |-> NoField, last_price |-> NoPriceField]

FastInfos ==
    {Snapshot(s) : s \in {"raises", "none", "empty", "opaque"}}
        \cup {[shape |-> "map", currency |-> c, last_price |-> p] :
                 c \in CurrencyFields, p \in LastPriceFields}

FiUnset == Snapshot("unset")

\* The closes of a history frame, oldest first.
CloseValues == {NaN, Inf} \cup {Fin(c) : c \in Prices}

RECURSIVE ClosesUpTo(_)
ClosesUpTo(n) ==
    IF n = 0 THEN {<<>>}
    ELSE LET shorter == ClosesUpTo(n - 1)
         IN  shorter \cup
             {Append(s, c) : s \in {x \in shorter : Len(x) = n - 1},
                             c \in CloseValues}

Frame(shape, close) == [shape |-> shape, close |-> close]

\* What stock.history(period="5d", ...) can give: the call raises, None, a
\* frame with no rows, a frame with rows and no Close column, or a frame
\* with one to n rows.
HistoriesUpTo(n) ==
    {Frame(s, <<>>) : s \in {"raises", "none", "empty", "noclose"}}
        \cup {Frame("frame", c) : c \in ClosesUpTo(n) \ {<<>>}}

HistUnset == Frame("unset", <<>>)

\* What yf.Ticker(t) can do: build the object, or raise.
CtorResponses == {"", "ConnectionError"}

\* -------------------------------------------------------------------------
\* streamlit_app.py

PriceResult(ticker, last_price, cur, status) ==
    [ticker |-> ticker, last_price |-> last_price, currency |-> cur, status |-> status]

\* The body of the try around the fast path of get_last_price: the
\* exception it ends with ("" for none) and the locals it leaves.
GlpFastBody(f) ==
    CASE f.shape = "raises" ->
            [exc |-> "ConnectionError", price |-> PriceNone, currency |-> CurNone]
      [] f.shape \in {"none", "empty", "opaque"} ->
            [exc |-> "", price |-> PriceNone, currency |-> CurNone]
      [] OTHER ->
            IF f.currency.k = "raises"
            THEN [exc |-> "ConnectionError", price |-> PriceNone, currency |-> CurNone]
            ELSE LET cur == IF f.currency.k = "str" THEN Cur(f.currency.s) ELSE CurNone
                 IN  CASE f.last_price.k = "raises" ->
                            [exc |-> "ConnectionError", price |-> PriceNone, currency |-> cur]
                       [] f.last_price.k \in {"absent", "none"} ->
                            [exc |-> "", price |-> PriceNone, currency |-> cur]
                       [] f.last_price.k = "text" ->
                            [exc |-> "ValueError", price |-> PriceNone, currency |-> cur]
                       [] OTHER ->
                            [exc |-> "", price |-> f.last_price, currency |-> cur]

\* A fast path whose except clause is missing: the fault goes on.
FastFaultEscapes(r) == r

\* except Exception: pass
FastExcept(r) == [r EXCEPT !.exc = ""]

\* Series.dropna()
DropNa(close) == SelectSeq(close, LAMBDA x : x.k /= "nan")

\* A history fallback that reads the first row.
HistTryFirstRow(h) ==
    CASE h.shape = "raises" -> [exc |-> "ConnectionError", price |-> PriceNone]
      [] h.shape \in {"none", "empty"} -> [exc |-> "", price |-> PriceNone]
      [] h.shape = "noclose" -> [exc |-> "KeyError", price |-> PriceNone]
      [] OTHER ->
            LET kept == DropNa(h.close)
            IN  IF kept = <<>> THEN [exc |-> "IndexError", price |-> PriceNone]
                ELSE [exc |-> "", price |-> kept[1]]

\* The body of the try of _price_from_history.
HistTry(h) ==
    CASE h.shape = "raises" -> [exc |-> "ConnectionError", price |-> PriceNone]
      [] h.shape \in {"none", "empty"} -> [exc |-> "", price |-> PriceNone]
      [] h.shape = "noclose" -> [exc |-> "KeyError", price |-> PriceNone]
      [] OTHER ->
            LET kept == DropNa(h.close)
            IN  IF kept = <<>> THEN [exc |-> "IndexError", price |-> PriceNone]
                ELSE [exc |-> "", price |-> kept[Len(kept)]]

\* _price_from_history: except Exception: return None
price_from_history(h) ==
    LET r == HistTry(h) IN IF r.exc /= "" THEN PriceNone ELSE r.price

\* pd.notna of a float
NotNa(x) == x.k /= "nan"

\* The last lines of the try of get_last_price.
Classify(tk, p, cur) ==
    IF p.k = "none" \/ ~NotNa(p)
    THEN PriceResult(tk, PriceNone, cur, "invalid ticker or no data")
    ELSE PriceResult(tk, p, cur, "ok")

\* except Exception as e: return PriceResult(... f"error: {type(e).__name__}")
GlpOuterExcept(tk, e) ==
    [raised |-> FALSE,
     result |-> PriceResult(tk, PriceNone, CurNone, "error: " \o e)]

\* -------------------------------------------------------------------------
\* daily_script.py

DEFAULT_TICKERS ==
    << <<"V","R","T">>, <<"C","O","H","R">>, <<"R","R","X">>, <<"M","B","L","Y">>,
       <<"M","O","D">>, <<"G","D","X">>, <<"T","E","R">>, <<"F","N">>,
       <<"C","C","J">>, <<"X","Y","L">>, <<"H","M","Y">>, <<"S","F","F","L","Y">> >>

\* The body of the try around the fast path of build_message_body.
BmbFastBody(f) ==
    CASE f.shape = "raises" -> [exc |-> "ConnectionError", price |-> PriceNone]
      [] f.shape \in {"none", "empty"} -> [exc |-> "", price |-> PriceNone]
      [] f.shape = "opaque" -> [exc |-> "TypeError", price |-> PriceNone]
      [] OTHER ->
            CASE f.last_price.k \in {"absent", "none"} -> [exc |-> "", price |-> PriceNone]
              [] f.last_price.k = "raises" -> [exc |-> "ConnectionError", price |-> PriceNone]
              [] f.last_price.k = "text" -> [exc |-> "ValueError", price |-> PriceNone]
              [] OTHER -> [exc |-> "", price |-> f.last_price]

\* Lines 34-36: the history fallback inside the outer try; an empty frame
\* leaves price as it is.
BmbHistBody(h, p) ==
    CASE h.shape = "raises" -> [exc |-> "ConnectionError", price |-> PriceNone]
      [] h.shape = "none" -> [exc |-> "AttributeError", price |-> PriceNone]
      [] h.shape = "empty" -> [exc |-> "", price |-> p]
      [] h.shape = "noclose" -> [exc |-> "KeyError", price |-> PriceNone]
      [] OTHER ->
            LET kept == DropNa(h.close)
            IN  IF kept = <<>> THEN [exc |-> "IndexError", price |-> PriceNone]
                ELSE [exc |-> "", price |-> kept[Len(kept)]]

\* str(n) for n >= 0
Digit(d) == <<"0", "1", "2", "3", "4", "5", "6", "7", "8", "9">>[d + 1]

RECURSIVE IntStr(_)
IntStr(n) == IF n < 10 THEN <<Digit(n)>> ELSE IntStr(n \div 10) \o <<Digit(n % 10)>>

\* f"{price:.2f}"
Fmt2(p) ==
    CASE p.k = "nan" -> <<"n", "a", "n">>
      [] p.k = "inf" -> <<"i", "n", "f">>
      [] OTHER -> IntStr(p.v \div 100) \o <<".", Digit((p.v % 100) \div 10), Digit(p.v % 10)>>

\* f"{t}: Error"
ErrorLine(tk) == tk \o <<":", " ", "E", "r", "r", "o", "r">>

\* f"{t}: ${price:.2f}"
PriceLine(tk, p) == tk \o <<":", " ", "$">> \o Fmt2(p)

\* Lines 38-41
RenderLine(tk, p) == IF p.k = "none" THEN ErrorLine(tk) ELSE PriceLine(tk, p)

\* f"Daily Stock Update ({now})"
Header(now) ==
    <<"D","a","i","l","y"," ","S","t","o","c","k"," ","U","p","d","a","t","e"," ","(">>
        \o now \o <<")">>

\* datetime.now(timezone.utc).strftime("%Y-%m-%d %H:%M UTC") at two instants
Timestamps ==
    { <<"2","0","2","6","-","0","2","-","0","5"," ","0","7",":","3","0"," ","U","T","C">>,
      <<"2","0","2","6","-","1","2","-","3","1"," ","2","3",":","5","9"," ","U","T","C">> }

\* bool(topic) of os.environ.get("NTFY_TOPIC"): unset is None
Unset == [set |-> FALSE, val |-> <<>>]
EnvVal(s) == [set |-> TRUE, val |-> s]

\* A check that lets an empty topic through: if topic is None
TopicIsNone(tp) == ~tp.set

\* not topic
TopicMissing(tp) == ~tp.set \/ tp.val = <<>>

\* Lines 145-150: the tickers of the run
RunTickers(tickers_env) ==
    IF Strip(tickers_env) /= <<>>
    THEN LET ps == Split(Replace(tickers_env, NL, ","), ",")
         IN  [i \in 1..Len(SelectSeq(ps, LAMBDA p : Strip(p) /= <<>>)) |->
                 Upper(Strip(SelectSeq(ps, LAMBDA p : Strip(p) /= <<>>)[i]))]
    ELSE DEFAULT_TICKERS

\* A lone surrogate code point, U+DCFF: what os.environ decodes the byte 0xFF
\* of a variable to.  It is one character; strip() and upper() leave it.
Surrogate == "U+DCFF"

\* html.escape(s) for one character
EscapeChar(c) ==
    CASE c = "&" -> <<"&", "a", "m", "p", ";">>
      [] c = "<" -> <<"&", "l", "t", ";">>
      [] c = ">" -> <<"&", "g", "t", ";">>
      [] c = "\"" -> <<"&", "q", "u", "o", "t", ";">>
      [] c = "'" -> <<"&", "#", "x", "2", "7", ";">>
      [] OTHER -> <<c>>

\* escaped_body = escape(message_body)
Escape(s) == Flatten([i \in 1..Len(s) |-> EscapeChar(s[i])])

\* urllib.parse.quote for one character of a report: letters, digits and
\* "_.-~/" stay, another character becomes %XX.
QuoteChar(c) ==
    CASE c = " " -> <<"%", "2", "0">>
      [] c = NL -> <<"%", "0", "A">>
      [] c = "\"" -> <<"%", "2", "2">>
      [] c = "#" -> <<"%", "2", "3">>
      [] c = "$" -> <<"%", "2", "4">>
      [] c = "&" -> <<"%", "2", "6">>
      [] c = "'" -> <<"%", "2", "7">>
      [] c = "(" -> <<"%", "2", "8">>
      [] c = ")" -> <<"%", "2", "9">>
      [] c = "," -> <<"%", "2", "C">>
      [] c = ":" -> <<"%", "3", "A">>
      [] c = ";" -> <<"%", "3", "B">>
      [] c = "<" -> <<"%", "3", "C">>
      [] c = ">" -> <<"%", "3", "E">>
      [] OTHER -> <<c>>

\* urllib.parse.quote(s): the text is encoded as UTF-8 first, which a lone
\* surrogate fails.
quote(s) ==
    IF \E i \in 1..Len(s) : s[i] = Surrogate
    THEN [exc |-> "UnicodeEncodeError", text |-> <<>>]
    ELSE [exc |-> "", text |-> Flatten([i \in 1..Len(s) |-> QuoteChar(s[i])])]

\* Lines 155-158: html_page is a fixed page around escape(message_body), and
\* click_url is "data:text/html;charset=utf-8," and quote(html_page).  The
\* fixed text encodes without a fault; text is the report's part of the URI.
click_url(body) == quote(Escape(body))

\* -------------------------------------------------------------------------
\* tickers_config.py: the default list

FALLBACK_TICKERS ==
    << <<"V","R","T">>, <<"C","O","H","R">>, <<"R","R","X">>, <<"M","B","L","Y">>,
       <<"M","O","D">>, <<"G","D","X">>, <<"T","E","R">>, <<"F","N">>,
       <<"C","C","J">>, <<"X","Y","L">>, <<"H","M","Y">>, <<"F","C","X">>,
       <<"I","E","X">> >>

\* The file at the path, as the file system holds it: no such file, a
\* directory, a path under a directory the process may not search (stat
\* fails with EACCES), a regular file the process may not read, a regular
\* file that is not UTF-8, or a regular file with a text.
FileOf(kind, text) == [kind |-> kind, text |-> text]

NoFile == FileOf("missing", <<>>)

Files ==
    {FileOf(k, <<>>) : k \in {"missing", "dir", "noaccess", "unreadable", "undecodable"}}
        \cup {FileOf("regular", x) : x \in RawTexts}

\* Path.exists(): stat, with ENOENT and ENOTDIR read as False.  An EACCES
\* is re-raised by pathlib up to Python 3.13 and read as False from 3.14.
ExistsOutcomes(f) ==
    CASE f.kind = "missing" -> {"False"}
      [] f.kind = "noaccess" -> {"PermissionError", "False"}
      [] OTHER -> {"True"}

\* Path.is_file(), on a path that exists
IsFile(f) == f.kind /= "dir"

\* The body of the try of load_tickers_from_file: p.read_text, parse_tickers
ReadTry(f) ==
    CASE f.kind = "unreadable" -> [exc |-> "PermissionError", tickers |-> <<>>]
      [] f.kind = "undecodable" -> [exc |-> "UnicodeDecodeError", tickers |-> <<>>]
      [] OTHER -> [exc |-> "", tickers |-> parse_tickers(f.text)]

\* except Exception: return []
ReadExcept(r) == IF r.exc /= "" THEN [exc |-> "", tickers |-> <<>>] ELSE r

\* return file_tickers if file_tickers else list(FALLBACK_TICKERS)
OrFallback(file_tickers) ==
    IF file_tickers /= <<>> THEN file_tickers ELSE FALLBACK_TICKERS

\* -------------------------------------------------------------------------
\* The market-data source.

Quote(ctor, f, h) == [ctor |-> ctor, fi |-> f, hist |-> h]

MapInfo(c, p) == [shape |-> "map", currency |-> c, last_price |-> p]

UsdField == [k |-> "str", s |-> "USD"]

\* The quotes the source holds for the built-in symbols: symbol i of
\* DEFAULT_TICKERS gets quote i + market of this list, cyclically.
Quotes ==
    << Quote("", MapInfo(UsdField, Fin(12340)), Frame("empty", <<>>)),
       Quote("", Snapshot("none"), Frame("frame", <<Fin(5)>>)),
       Quote("", Snapshot("raises"), Frame("frame", <<Fin(12340), NaN>>)),
       Quote("", MapInfo(UsdField, [k |-> "none", v |-> 0]), Frame("empty", <<>>)),
       Quote("ConnectionError", Snapshot("none"), Frame("empty", <<>>)),
       Quote("", MapInfo(NoField, NaN), Frame("frame", <<Fin(5)>>)),
       Quote("", Snapshot("empty"), Frame("raises", <<>>)),
       Quote("", MapInfo(UsdField, NoPriceField), Frame("frame", <<NaN>>)),
       Quote("", Snapshot("opaque"), Frame("none", <<>>)),
       Quote("", MapInfo(NoField, [k |-> "text", v |-> 0]), Frame("noclose", <<>>)),
       Quote("", MapInfo(UsdField, Inf), Frame("empty", <<>>)),
       Quote("", MapInfo([k |-> "raises", s |-> ""], Fin(5)),
             Frame("frame", <<Fin(5), Fin(12340)>>)) >>

Markets == 0..(Len(Quotes) - 1)

BuiltIn(sym) == \E i \in 1..Len(DEFAULT_TICKERS) : DEFAULT_TICKERS[i] = sym

QuoteOf(sym, m) ==
    LET i == CHOOSE j \in 1..Len(DEFAULT_TICKERS) : DEFAULT_TICKERS[j] = sym
    IN  Quotes[((i - 1 + m) % Len(Quotes)) + 1]

\* What the source may answer for a symbol: its quote for a built-in symbol,
\* anything for another.
CtorOf(sym, m) == IF BuiltIn(sym) THEN {QuoteOf(sym, m).ctor} ELSE CtorResponses
FastOf(sym, m) == IF BuiltIn(sym) THEN {QuoteOf(sym, m).fi} ELSE FastInfos
HistOf(sym, m) ==
    IF BuiltIn(sym) THEN {QuoteOf(sym, m).hist} ELSE HistoriesUpTo(MaxHist)

Call(op, arg, body) == [op |-> op, arg |-> arg, body |-> body, click |-> <<>>]

\* requests.post(url, data=message_body, headers={..., "Click": click_url})
PostCall(topic, body, click) ==
    [op |-> "POST", arg |-> topic, body |-> body, click |-> click]

\* requests.post(...), resp.raise_for_status(): "" is a 2xx answer
PostOutcomes == {"", "Timeout", "ConnectionError", "HTTPError"}

\* except Exception as e: print(f"Failed to send: {e}")
PostExcept(e) == ""

\* A guard that queries the history whatever the fast path gave.
AlwaysHistory(p) == TRUE

\* if price is None:
NeedsHistory(p) == p.k = "none"

\* -------------------------------------------------------------------------
\* The inputs of a run.

TickerInputs == {<<>>, <<" ">>, <<"a">>, <<" ", "b", " ">>}

RECURSIVE TickerListsUpTo(_)
TickerListsUpTo(n) ==
    IF n = 0 THEN {<<>>}
    ELSE LET shorter == TickerListsUpTo(n - 1)
         IN  shorter \cup
             {Append(s, c) : s \in {x \in shorter : Len(x) = n - 1},
                             c \in TickerInputs}

Topics == {Unset, EnvVal(<<>>), EnvVal(<<"t">>)}

\* Values of the TICKERS variable: unset, blank, lists with commas, line
\* breaks, blanks and empty entries, and values with a byte that is not UTF-8.
TickersEnvs ==
    {Unset, EnvVal(<<>>), EnvVal(<<" ">>), EnvVal(<<",">>), EnvVal(<<"a">>),
     EnvVal(<<"a", ",", " ", "b">>), EnvVal(<<"b", NL, "a", ",">>),
     EnvVal(<<" ", "a", " ", ",", ",", "a">>),
     EnvVal(<<Surrogate>>), EnvVal(<<"a", ",", Surrogate>>)}

\* os.environ.get(name, default)
EnvGet(e, default) == IF e.set THEN e.val ELSE default

Environ(topic, tk, tf) == [NTFY_TOPIC |-> topic, TICKERS |-> tk, TICKERS_FILE |-> tf]

NoEnviron == Environ(Unset, Unset, Unset)

vars ==
    <<prog, pc, raw, out, again, environ, file, market, ticker_str, tickers, idx,
      t, fi, hist, price, currency, lines, message_body, calls, stdout, ret, exc>>

\* The state a run starts in.
Start(p, c, r, e, f, m, s, l) ==
    /\ prog = p
    /\ pc = c
    /\ raw = r
    /\ out = <<>>
    /\ again = <<>>
    /\ environ = e
    /\ file = f
    /\ market = m
    /\ ticker_str = s
    /\ tickers = l
    /\ idx = 0
    /\ t = <<>>
    /\ fi = FiUnset
    /\ hist = HistUnset
    /\ price = PriceNone
    /\ currency = CurNone
    /\ lines = <<>>
    /\ message_body = <<>>
    /\ calls = <<>>
    /\ stdout = <<>>
    /\ ret = <<>>
    /\ exc = ""

\* ---- the parse_tickers run: parse, then parse the re-serialized list ----
InitParse ==
    \E r \in RawTexts :
        Start("parse_tickers", "start", r, NoEnviron, NoFile, 0, <<>>, <<>>)

Parse ==
    /\ prog = "parse_tickers"
    /\ pc = "start"
    /\ out' = parse_tickers(raw)
    /\ pc' = "parsed"
    /\ UNCHANGED <<prog, raw, again, environ, file, market, ticker_str, tickers,
                   idx, t, fi, hist, price, currency, lines, message_body, calls,
                   stdout, ret, exc>>

Reparse ==
    /\ prog = "parse_tickers"
    /\ pc = "parsed"
    /\ again' = parse_tickers(Join(<<",">>, out))
    /\ pc' = "reparsed"
    /\ UNCHANGED <<prog, raw, out, environ, file, market, ticker_str, tickers,
                   idx, t, fi, hist, price, currency, lines, message_body, calls,
                   stdout, ret, exc>>

NextParse == Parse \/ Reparse

SpecParse == InitParse /\ [][NextParse]_vars

\* ---- get_default_tickers ----
InitDefaults ==
    \E f \in Files, tf \in {Unset, EnvVal(<<"w", ".", "t", "x", "t">>)} :
        Start("get_default_tickers", "gdt_exists", <<>>, Environ(Unset, Unset, tf),
              f, 0, <<>>, <<>>)

\* load_tickers_from_file up to its try: p.exists(), p.is_file()
GdtExists ==
    /\ prog = "get_default_tickers"
    /\ pc = "gdt_exists"
    /\ \E o \in ExistsOutcomes(file) :
          /\ calls' = Append(calls, Call("stat",
                 EnvGet(environ.TICKERS_FILE,
                        <<"t","i","c","k","e","r","s",".","t","x","t">>), <<>>))
          /\ CASE o = "PermissionError" ->
                    /\ pc' = "raised"
                    /\ exc' = o
                    /\ UNCHANGED ret
               [] o = "True" /\ IsFile(file) ->
                    /\ pc' = "gdt_read"
                    /\ UNCHANGED <<ret, exc>>
               [] OTHER ->
                    /\ pc' = "returned"
                    /\ ret' = OrFallback(<<>>)
                    /\ UNCHANGED exc
    /\ UNCHANGED <<prog, raw, out, again, environ, file, market, ticker_str,
                   tickers, idx, t, fi, hist, price, currency, lines,
                   message_body, stdout>>

\* The try of load_tickers_from_file, then the return of get_default_tickers
GdtRead ==
    /\ prog = "get_default_tickers"
    /\ pc = "gdt_read"
    /\ calls' = Append(calls, Call("read_text",
           EnvGet(environ.TICKERS_FILE,
                  <<"t","i","c","k","e","r","s",".","t","x","t">>), <<>>))
    /\ LET r == ReadExcept(ReadTry(file))
       IN  IF r.exc /= ""
           THEN /\ pc' = "raised"
                /\ exc' = r.exc
                /\ UNCHANGED ret
           ELSE /\ pc' = "returned"
                /\ ret' = OrFallback(r.tickers)
                /\ UNCHANGED exc
    /\ UNCHANGED <<prog, raw, out, again, environ, file, market, ticker_str,
                   tickers, idx, t, fi, hist, price, currency, lines,
                   message_body, stdout>>

NextDefaults == GdtExists \/ GdtRead

SpecDefaults == InitDefaults /\ [][NextDefaults]_vars

\* ---- get_last_price, build_message_body, send_push_notification ----
Init ==
    \/ \E s \in TickerInputs :
          Start("get_last_price", "glp_start", <<>>, NoEnviron, NoFile, 0, s, <<>>)
    \/ \E l \in TickerListsUpTo(MaxTickers) :
          Start("build_message_body", "bmb_start", <<>>, NoEnviron, NoFile, 0, <<>>, l)
    \/ \E tp \in Topics, tk \in TickersEnvs, m \in Markets :
          /\ m = 0 \/ RunTickers(EnvGet(tk, <<>>)) = DEFAULT_TICKERS
          /\ Start("send_push_notification", "spn_start", <<>>,
                   Environ(tp, tk, Unset), NoFile, m, <<>>, <<>>)

\* Lines 34-36 of streamlit_app.py
GlpEnter ==
    /\ prog = "get_last_price"
    /\ pc = "glp_start"
    /\ t' = Upper(Strip(ticker_str))
    /\ IF t' = <<>>
       THEN /\ ret' = PriceResult(ticker_str, PriceNone, CurNone, "empty ticker")
            /\ pc' = "returned"
       ELSE /\ pc' = "glp_ctor"
            /\ UNCHANGED ret
    /\ UNCHANGED <<prog, raw, out, again, environ, file, market, ticker_str,
                   tickers, idx, fi, hist, price, currency, lines, message_body,
                   calls, stdout, exc>>

\* Lines 39-41: yf.Ticker(t) inside the outer try
GlpCtor ==
    /\ prog = "get_last_price"
    /\ pc = "glp_ctor"
    /\ \E e \in CtorOf(t, market) :
          /\ calls' = Append(calls, Call("Ticker", t, <<>>))
          /\ IF e = ""
             THEN /\ pc' = "glp_fast"
                  /\ price' = PriceNone
                  /\ currency' = CurNone
                  /\ UNCHANGED <<ret, exc>>
             ELSE LET h == GlpOuterExcept(t, e)
                  IN  /\ pc' = IF h.raised THEN "raised" ELSE "returned"
                      /\ exc' = IF h.raised THEN e ELSE ""
                      /\ ret' = IF h.raised THEN ret ELSE h.result
                      /\ UNCHANGED <<price, currency>>
    /\ UNCHANGED <<prog, raw, out, again, environ, file, market, ticker_str,
                   tickers, idx, t, fi, hist, lines, message_body, stdout>>

\* Lines 44-56: the fast path and the test that guards the fallback
GlpFast ==
    /\ prog = "get_last_price"
    /\ pc = "glp_fast"
    /\ \E f \in FastOf(t, market) :
          /\ fi' = f
          /\ calls' = Append(calls, Call("fast_info", t, <<>>))
          /\ LET r == FastExcept(GlpFastBody(f))
             IN  IF r.exc /= ""
                 THEN LET h == GlpOuterExcept(t, r.exc)
                      IN  /\ pc' = IF h.raised THEN "raised" ELSE "returned"
                          /\ exc' = IF h.raised THEN r.exc ELSE ""
                          /\ ret' = IF h.raised THEN ret ELSE h.result
                          /\ UNCHANGED <<price, currency>>
                 ELSE /\ price' = r.price
                      /\ currency' = r.currency
                      /\ pc' = IF NeedsHistory(r.price) THEN "glp_hist" ELSE "glp_classify"
                      /\ UNCHANGED <<ret, exc>>
    /\ UNCHANGED <<prog, raw, out, again, environ, file, market, ticker_str,
                   tickers, idx, t, hist, lines, message_body, stdout>>

\* Line 57: price = _price_from_history(ticker)
GlpHist ==
    /\ prog = "get_last_price"
    /\ pc = "glp_hist"
    /\ \E h \in HistOf(t, market) :
          /\ hist' = h
          /\ calls' = Append(calls, Call("history", t, <<>>))
          /\ price' = price_from_history(h)
    /\ pc' = "glp_classify"
    /\ UNCHANGED <<prog, raw, out, again, environ, file, market, ticker_str,
                   tickers, idx, t, fi, currency, lines, message_body, stdout,
                   ret, exc>>

\* Lines 59-62
GlpReturn ==
    /\ prog = "get_last_price"
    /\ pc = "glp_classify"
    /\ ret' = Classify(t, price, currency)
    /\ pc' = "returned"
    /\ UNCHANGED <<prog, raw, out, again, environ, file, market, ticker_str,
                   tickers, idx, t, fi, hist, price, currency, lines,
                   message_body, calls, stdout, exc>>

\* Lines 13-14 of daily_script.py
BmbEnter ==
    /\ prog \in {"build_message_body", "send_push_notification"}
    /\ pc = "bmb_start"
    /\ \E now \in Timestamps : lines' = <<Header(now), <<>>>>
    /\ idx' = 1
    /\ pc' = "bmb_loop"
    /\ UNCHANGED <<prog, raw, out, again, environ, file, market, ticker_str,
                   tickers, t, fi, hist, price, currency, message_body, calls,
                   stdout, ret, exc>>

\* Lines 16-19 and 45: the head of the for loop (the snapshot and the frame
\* of the ticker before are dead here), and the return after the last ticker
BmbLoop ==
    /\ prog \in {"build_message_body", "send_push_notification"}
    /\ pc = "bmb_loop"
    /\ IF idx > Len(tickers)
       THEN /\ IF prog = "build_message_body"
               THEN /\ ret' = Join(<<NL>>, lines)
                    /\ pc' = "returned"
                    /\ UNCHANGED message_body
               ELSE /\ message_body' = Join(<<NL>>, lines)
                    /\ pc' = "spn_click"
                    /\ UNCHANGED ret
            /\ UNCHANGED <<idx, t, fi, hist>>
       ELSE /\ t' = Upper(Strip(tickers[idx]))
            /\ fi' = FiUnset
            /\ hist' = HistUnset
            /\ IF t' = <<>>
               THEN /\ idx' = idx + 1
                    /\ pc' = "bmb_loop"
               ELSE /\ pc' = "bmb_ctor"
                    /\ UNCHANGED idx
            /\ UNCHANGED <<ret, message_body>>
    /\ UNCHANGED <<prog, raw, out, again, environ, file, market, ticker_str,
                   tickers, price, currency, lines, calls, stdout, exc>>

\* Lines 21-25: yf.Ticker(t) inside the outer try
BmbCtor ==
    /\ prog \in {"build_message_body", "send_push_notification"}
    /\ pc = "bmb_ctor"
    /\ \E e \in CtorOf(t, market) :
          /\ calls' = Append(calls, Call("Ticker", t, <<>>))
          /\ IF e = ""
             THEN /\ price' = PriceNone
                  /\ pc' = "bmb_fast"
                  /\ UNCHANGED <<lines, idx>>
             ELSE /\ lines' = Append(lines, ErrorLine(t))
                  /\ idx' = idx + 1
                  /\ pc' = "bmb_loop"
                  /\ UNCHANGED price
    /\ UNCHANGED <<prog, raw, out, again, environ, file, market, ticker_str,
                   tickers, t, fi, hist, currency, message_body, stdout, ret, exc>>

\* Lines 26-33, and 38-41 when the fast path gave a price
BmbFast ==
    /\ prog \in {"build_message_body", "send_push_notification"}
    /\ pc = "bmb_fast"
    /\ \E f \in FastOf(t, market) :
          /\ fi' = f
          /\ calls' = Append(calls, Call("fast_info", t, <<>>))
          /\ LET r == FastExcept(BmbFastBody(f))
             IN  IF r.exc /= ""
                 THEN /\ lines' = Append(lines, ErrorLine(t))
                      /\ idx' = idx + 1
                      /\ pc' = "bmb_loop"
                      /\ UNCHANGED price
                 ELSE /\ price' = r.price
                      /\ IF NeedsHistory(r.price)
                         THEN /\ pc' = "bmb_hist"
                              /\ UNCHANGED <<lines, idx>>
                         ELSE /\ lines' = Append(lines, RenderLine(t, r.price))
                              /\ idx' = idx + 1
                              /\ pc' = "bmb_loop"
    /\ UNCHANGED <<prog, raw, out, again, environ, file, market, ticker_str,
                   tickers, t, hist, currency, message_body, stdout, ret, exc>>

\* Lines 34-43: the history fallback, the line of the ticker, the outer except
BmbHist ==
    /\ prog \in {"build_message_body", "send_push_notification"}
    /\ pc = "bmb_hist"
    /\ \E h \in HistOf(t, market) :
          /\ hist' = h
          /\ calls' = Append(calls, Call("history", t, <<>>))
          /\ LET r == BmbHistBody(h, price)
             IN  IF r.exc /= ""
                 THEN /\ lines' = Append(lines, ErrorLine(t))
                      /\ UNCHANGED price
                 ELSE /\ price' = r.price
                      /\ lines' = Append(lines, RenderLine(t, r.price))
    /\ idx' = idx + 1
    /\ pc' = "bmb_loop"
    /\ UNCHANGED <<prog, raw, out, again, environ, file, market, ticker_str,
                   tickers, t, fi, currency, message_body, stdout, ret, exc>>

\* Lines 141-152: the topic check, the tickers of the run, the call of
\* build_message_body
SpnStart ==
    /\ prog = "send_push_notification"
    /\ pc = "spn_start"
    /\ IF TopicMissing(environ.NTFY_TOPIC)
       THEN /\ pc' = "raised"
            /\ exc' = "RuntimeError"
            /\ UNCHANGED tickers
       ELSE /\ tickers' = RunTickers(EnvGet(environ.TICKERS, <<>>))
            /\ pc' = "bmb_start"
            /\ UNCHANGED exc
    /\ UNCHANGED <<prog, raw, out, again, environ, file, market, ticker_str,
                   idx, t, fi, hist, price, currency, lines, message_body, calls,
                   stdout, ret>>

\* Lines 155-158: the data URI of the report's HTML page, built outside the
\* try; a fault of quote leaves the run.
SpnClick ==
    /\ prog = "send_push_notification"
    /\ pc = "spn_click"
    /\ LET e == click_url(message_body).exc
       IN  IF e /= ""
           THEN /\ pc' = "raised"
                /\ exc' = e
           ELSE /\ pc' = "spn_post"
                /\ UNCHANGED exc
    /\ UNCHANGED <<prog, raw, out, again, environ, file, market, ticker_str,
                   tickers, idx, t, fi, hist, price, currency, lines,
                   message_body, calls, stdout, ret>>

\* Lines 160-176: the POST of the report and its except
SpnPost ==
    /\ prog = "send_push_notification"
    /\ pc = "spn_post"
    /\ \E o \in PostOutcomes :
          /\ calls' = Append(calls, PostCall(environ.NTFY_TOPIC.val, message_body,
                                             click_url(message_body).text))
          /\ LET e == PostExcept(o)
             IN  IF e /= ""
                 THEN /\ pc' = "raised"
                      /\ exc' = e
                      /\ UNCHANGED stdout
                 ELSE /\ pc' = "returned"
                      /\ stdout' = Append(stdout,
                             IF o = "" THEN "Push notification sent successfully!"
                             ELSE "Failed to send: " \o o)
                      /\ UNCHANGED exc
    /\ UNCHANGED <<prog, raw, out, again, environ, file, market, ticker_str,
                   tickers, idx, t, fi, hist, price, currency, lines,
                   message_body, ret>>

Next ==
    \/ GlpEnter
    \/ GlpCtor
    \/ GlpFast
    \/ GlpHist
    \/ GlpReturn
    \/ BmbEnter
    \/ BmbLoop
    \/ BmbCtor
    \/ BmbFast
    \/ BmbHist
    \/ SpnStart
    \/ SpnClick
    \/ SpnPost

Spec == Init /\ [][Next]_vars

\* -------------------------------------------------------------------------
\* Properties.

GlpReturned == prog = "get_last_price" /\ pc = "returned"

InBmb == prog \in {"build_message_body", "send_push_notification"}

\* build_message_body has just finished the ticker whose snapshot is fi.
BmbTickerDone == InBmb /\ pc = "bmb_loop" /\ fi /= FiUnset

\* The calls issued for the ticker being resolved: those from the last
\* yf.Ticker(...) on.
LastCtorAt ==
    CHOOSE j \in 0..Len(calls) :
        /\ j > 0 => calls[j].op = "Ticker"
        /\ \A k \in (j + 1)..Len(calls) : calls[k].op /= "Ticker"
        /\ j = 0 => \A k \in 1..Len(calls) : calls[k].op /= "Ticker"

HistoryQueriedForTicker ==
    \E k \in (LastCtorAt + 1)..Len(calls) : calls[k].op = "history"

\* The snapshot holds a finite last price (and, for get_last_price, which
\* reads it, a currency field that can be read).
FastUsableGlp(f) ==
    f.shape = "map" /\ f.last_price.k = "fin" /\ f.currency.k /= "raises"

FastUsableBmb(f) == f.shape = "map" /\ f.last_price.k = "fin"

\* The fast path was tried and yields nothing: no snapshot, no last-price
\* field or a None in it, or a fault while reading.
FastNothingGlp(f) ==
    \/ f.shape \in {"raises", "none", "empty", "opaque"}
    \/ /\ f.shape = "map"
       /\ \/ f.currency.k = "raises"
          \/ f.last_price.k \in {"absent", "none", "raises", "text"}

FastNothingBmb(f) ==
    \/ f.shape \in {"raises", "none", "empty", "opaque"}
    \/ f.shape = "map" /\ f.last_price.k \in {"absent", "none", "raises", "text"}

\* The history has a close that is not missing, and the last such close.
HasClose(h) == h.shape = "frame" /\ \E i \in 1..Len(h.close) : h.close[i].k /= "nan"

LastNonMissingClose(h) ==
    LET i == CHOOSE j \in 1..Len(h.close) :
                 /\ h.close[j].k /= "nan"
                 /\ \A k \in (j + 1)..Len(h.close) : h.close[k].k = "nan"
    IN  h.close[i]

\* The history was queried and yields nothing: a fault, no frame, no rows,
\* no Close column, or only missing closes.
HistNothing(h) ==
    \/ h.shape \in {"raises", "none", "empty", "noclose"}
    \/ h.shape = "frame" /\ \A i \in 1..Len(h.close) : h.close[i].k = "nan"

\* C1: every PriceResult get_last_price returns has status "ok" exactly when
\* its last_price is present and a finite, non-NaN number.
C1_OkIffFinitePrice ==
    GlpReturned => (ret.status = "ok" <=> ret.last_price.k = "fin")

\* C2: when the fast path yields a usable price P (and currency C) the result
\* is P (with C, status ok; in the report, the line of P) and the history is
\* not queried for that ticker; a history query always directly follows the
\* fast-path read of the same ticker, and is issued only with no price.
C2_FastPathPreferred ==
    /\ (GlpReturned /\ FastUsableGlp(fi)) =>
          /\ ret = PriceResult(t, fi.last_price,
                       IF fi.currency.k = "str" THEN Cur(fi.currency.s) ELSE CurNone,
                       "ok")
          /\ hist = HistUnset
          /\ ~HistoryQueriedForTicker
    /\ (BmbTickerDone /\ FastUsableBmb(fi)) =>
          /\ lines[Len(lines)] = t \o <<":", " ", "$">> \o Fmt2(fi.last_price)
          /\ hist = HistUnset
          /\ ~HistoryQueriedForTicker
    /\ \A j \in 1..Len(calls) :
          calls[j].op = "history" =>
              /\ j > 1
              /\ calls[j - 1].op = "fast_info"
              /\ calls[j - 1].arg = calls[j].arg
    /\ pc \in {"glp_hist", "bmb_hist"} =>
          /\ price = PriceNone
          /\ fi /= FiUnset
          /\ prog = "get_last_price" => ~FastUsableGlp(fi)
          /\ InBmb => ~FastUsableBmb(fi)

C2_Witness ==
    /\ GlpReturned
    /\ fi = MapInfo(UsdField, Fin(12340))
    /\ ret.status = "ok"
    /\ ret.currency = Cur("USD")

\* C3: for a non-blank ticker, when the fast path yields nothing and the
\* history has a non-missing close, get_last_price returns the last
\* non-missing close with status ok, and build_message_body appends the line
\* of that price.
C3_HistoryFallbackLastClose ==
    /\ (GlpReturned /\ FastNothingGlp(fi) /\ HasClose(hist)) =>
          /\ ret.status = "ok"
          /\ ret.last_price = LastNonMissingClose(hist)
          /\ ret.ticker = t
    /\ (BmbTickerDone /\ FastNothingBmb(fi) /\ HasClose(hist)) =>
          lines[Len(lines)] = t \o <<":", " ", "$">> \o Fmt2(LastNonMissingClose(hist))

C3_Witness ==
    /\ GlpReturned
    /\ fi.shape = "raises"
    /\ hist = Frame("frame", <<Fin(5), NaN>>)
    /\ ret.last_price = Fin(5)

\* C4: get_last_price never raises; a fault in the fast path leads to the
\* history query; when both tiers yield nothing (absent data or a fault in
\* each) the result has the status "invalid ticker or no data" and no price.
C4_FaultsContained ==
    prog = "get_last_price" =>
        /\ pc /= "raised"
        /\ exc = ""
        /\ (pc = "returned" /\ FastNothingGlp(fi)) => hist /= HistUnset
        /\ (pc = "returned" /\ FastNothingGlp(fi) /\ HistNothing(hist)) =>
              /\ ret.status = "invalid ticker or no data"
              /\ ret.last_price = PriceNone

C4_Witness ==
    /\ GlpReturned
    /\ fi.shape = "raises"
    /\ hist.shape = "raises"
    /\ ret.status = "invalid ticker or no data"

\* C5: the text build_message_body returns is the header line, a blank line,
\* then exactly one rendered line per input ticker, in input order.
C5_OneLinePerInputTicker ==
    (prog = "build_message_body" /\ pc = "returned") =>
        LET ls == Split(ret, NL)
        IN  /\ Len(ls) = 2 + Len(tickers)
            /\ \E now \in Timestamps : ls[1] = Header(now)
            /\ ls[2] = <<>>
            /\ \A i \in 1..Len(tickers) :
                  LET tk == Upper(Strip(tickers[i]))
                  IN  \/ ls[i + 2] = tk \o <<":", " ", "E", "r", "r", "o", "r">>
                      \/ \E p \in CloseValues :
                            ls[i + 2] = tk \o <<":", " ", "$">> \o Fmt2(p)

\* The tokens of a raw text, stated on its characters: a character is in a
\* comment from a '#' to the end of its line; commas outside comments and
\* line breaks separate the pieces; a token is a piece without its comment,
\* trimmed and upper-cased.
InComment(s, i) ==
    \E j \in 1..i : s[j] = "#" /\ \A k \in j..i : s[k] /= NL

IsSeparator(s, i) == s[i] = NL \/ (s[i] = "," /\ ~InComment(s, i))

PieceSpans(s) ==
    {sp \in (1..(Len(s) + 1)) \X (0..Len(s)) :
        /\ sp[1] <= sp[2] + 1
        /\ sp[1] = 1 \/ IsSeparator(s, sp[1] - 1)
        /\ sp[2] = Len(s) \/ IsSeparator(s, sp[2] + 1)
        /\ \A k \in sp[1]..sp[2] : ~IsSeparator(s, k)}

RECURSIVE Uncommented(_, _, _)
Uncommented(s, a, b) ==
    IF a > b THEN <<>>
    ELSE IF InComment(s, a) THEN Uncommented(s, a + 1, b)
    ELSE <<s[a]>> \o Uncommented(s, a + 1, b)

TokenAt(s, sp) == Upper(Strip(Uncommented(s, sp[1], sp[2])))

TokenSet(s) == {TokenAt(s, sp) : sp \in PieceSpans(s)} \ {<<>>}

FirstSeenAt(s, tok) ==
    CHOOSE a \in 1..(Len(s) + 1) :
        /\ \E sp \in PieceSpans(s) : sp[1] = a /\ TokenAt(s, sp) = tok
        /\ \A sp \in PieceSpans(s) : TokenAt(s, sp) = tok => a <= sp[1]

\* C6: the output of parse_tickers has no duplicate and lists the distinct
\* normalized tokens of the raw text in the order of their first occurrence.
C6_DistinctTokensFirstSeenOrder ==
    (prog = "parse_tickers" /\ pc /= "start") =>
        /\ \A i, j \in 1..Len(out) : i /= j => out[i] /= out[j]
        /\ {out[i] : i \in 1..Len(out)} = TokenSet(raw)
        /\ \A i, j \in 1..Len(out) :
              i < j => FirstSeenAt(raw, out[i]) < FirstSeenAt(raw, out[j])

C6_Witness ==
    /\ prog = "parse_tickers"
    /\ pc = "parsed"
    /\ raw = <<"b", ",", "a", NL, "A">>
    /\ out = << <<"B">>, <<"A">> >>

\* C7: parse_tickers(",".join(parse_tickers(raw))) == parse_tickers(raw).
C7_ParseIdempotent ==
    (prog = "parse_tickers" /\ pc = "reparsed") => again = out

C7_Witness ==
    /\ prog = "parse_tickers"
    /\ pc = "reparsed"
    /\ raw = <<"a", "#", ",", NL, "b">>
    /\ again = << <<"A">>, <<"B">> >>

\* C8: with NTFY_TOPIC missing or empty, send_push_notification raises at
\* once, and no external call is issued before.
C8_MissingTopicFailsFirst ==
    (/\ prog = "send_push_notification"
     /\ ~environ.NTFY_TOPIC.set \/ environ.NTFY_TOPIC.val = <<>>) =>
        /\ pc \in {"spn_start", "raised"}
        /\ pc = "raised" => exc = "RuntimeError"
        /\ calls = <<>>

C8_Witness ==
    /\ prog = "send_push_notification"
    /\ environ.NTFY_TOPIC = EnvVal(<<>>)
    /\ pc = "raised"
    /\ exc = "RuntimeError"

NumPosts == Cardinality({j \in 1..Len(calls) : calls[j].op = "POST"})

\* C9: with a topic configured, whatever the market-data queries and the POST
\* do, send_push_notification issues the POST exactly once, after the report
\* is built and as its last call, and returns without raising.
C9_PostOnceNoRaise ==
    (/\ prog = "send_push_notification"
     /\ environ.NTFY_TOPIC.set
     /\ environ.NTFY_TOPIC.val /= <<>>) =>
        /\ pc /= "raised"
        /\ exc = ""
        /\ NumPosts <= 1
        /\ pc = "returned" <=> NumPosts = 1
        /\ NumPosts = 1 =>
              /\ calls[Len(calls)].op = "POST"
              /\ idx > Len(tickers)
              /\ calls[Len(calls)].body = Join(<<NL>>, lines)
              /\ Len(lines) = 2 + Len(tickers)
              /\ Len(stdout) = 1

\* C10: get_default_tickers never raises and never returns an empty list: it
\* returns the parsed file when the file exists and parses to a non-empty
\* list, and the built-in list for every other state of the file.
C10_DefaultsNeverRaise ==
    prog = "get_default_tickers" =>
        /\ pc /= "raised"
        /\ pc = "returned" =>
              /\ ret /= <<>>
              /\ ret = IF file.kind = "regular" /\ parse_tickers(file.text) /= <<>>
                       THEN parse_tickers(file.text)
                       ELSE FALLBACK_TICKERS

====
